---- MODULE Spec2Model ----
(***************************************************************************)
(* Model of the key-signing scripts: scripts/gpg_utils.py (the trust       *)
(* verifier and the record scanners) and scripts/sign_all.py (the bulk     *)
(* signing loop).                                                          *)
(*                                                                         *)
(* Representation.  The text gpg prints is a list of lines, which is what  *)
(* gpg_output.split("\n") yields; a line is the list of its colon-         *)
(* separated fields, which is what line.split(":") yields.  The empty      *)
(* line is <<"">> (one empty field), as in Python.  Python index k of      *)
(* parts is index k+1 here (operator At).  Python's None is the string     *)
(* NONE, which is no field value.                                          *)
(***************************************************************************)
EXTENDS Integers, Sequences, FiniteSets, TLC

----------------------------------------------------------------------------
(* Bounds of the model *)

\* longest gpg output, in lines, of the generic key file
MaxLines == 4
\* largest number of key files in keys/
MaxFiles == 3

----------------------------------------------------------------------------
(* Constants of gpg_utils.py *)

COURSE_FINGERPRINT == "4DD5B3791798E493F6499F8DA049C765A07C89D8"
COURSE_LONG_ID == "A049C765A07C89D8"

NONE == "<None>"

\* the operator's keyring (gpg without --homedir)
DEFAULT_HOME == "~/.gnupg"
\* names tempfile.mkdtemp(prefix="gpg_verify_") can return
TmpNames == {"gpg_verify_a", "gpg_verify_b"}

\* the operator's own key
MY_KEY_ID == "0P3RAT0R0P3RAT0R"
MY_FINGERPRINT == "FFFFFFFFFFFFFFFFFFFFFFFF0P3RAT0R0P3RAT0R"

\* key ids and fingerprints of the student keys of keys/<n>.asc
StudentIds == <<"K1", "K2", "K3", "K4", "K5", "K6">>
StudentFprs == <<"FPR-K1", "FPR-K2", "FPR-K3", "FPR-K4", "FPR-K5", "FPR-K6">>

----------------------------------------------------------------------------
(* Lines of gpg --with-colons output *)

At(parts, k) == parts[k + 1]

\* a line of n fields with the given fields 0, 1, 4, 9 and 12 (those within n)
Line(f0, f1, f4, f9, f12, n) ==
  [i \in 1..n |-> CASE i = 1 -> f0
                    [] i = 2 -> f1
                    [] i = 5 -> f4
                    [] i = 10 -> f9
                    [] i = 13 -> f12
                    [] OTHER -> ""]

PubLine(id) == Line("pub", "u", id, "", "", 13)
ShortPubLine == Line("pub", "u", "", "", "", 3)
FprLine(fpr) == Line("fpr", "", "", fpr, "", 13)
UidLine(uid) == Line("uid", "u", "", uid, "", 13)
SigLine(validity, id, uid, fpr) == Line("sig", validity, id, uid, fpr, 13)
\* a sig record that ends before the signer fingerprint (field 12)
SigLineNoFpr(validity, id, uid) == Line("sig", validity, id, uid, "", 11)
BlankLine == <<"">>

\* all lists of at most n elements of S
RECURSIVE SeqsUpTo(_, _)
SeqsUpTo(S, n) ==
  IF n = 0 THEN {<<>>}
  ELSE LET shorter == SeqsUpTo(S, n - 1)
       IN  shorter \cup {Append(s, x) : s \in {t \in shorter : Len(t) = n - 1}, x \in S}

----------------------------------------------------------------------------
(* gpg_utils.py: KeyInfo, parse_key_info, check_course_signature *)

NoKeyInfo == [none |-> TRUE]

\* KeyInfo that marks no key as the course key
KeyInfo_NeverCourse(key_id, fingerprint, uid, is_course_key) ==
  [key_id |-> key_id, fingerprint |-> fingerprint, uid |-> uid,
   filepath |-> 0, has_course_signature |-> FALSE,
   is_course_key |-> FALSE]

KeyInfo(key_id, fingerprint, uid, is_course_key) ==
  [key_id |-> key_id, fingerprint |-> fingerprint, uid |-> uid,
   filepath |-> 0, has_course_signature |-> FALSE,
   is_course_key |-> is_course_key]

\* Python truthiness of an Optional[str]
Truthy(s) == s # NONE /\ s # ""

\* one iteration of the loop of parse_key_info
ParseKeyInfoStep(st, parts) ==
  IF Len(parts) < 2 THEN st
  ELSE IF At(parts, 0) = "pub" /\ st.key_id = NONE
    THEN [st EXCEPT !.key_id = IF Len(parts) > 4 THEN At(parts, 4) ELSE NONE]
  ELSE IF At(parts, 0) = "fpr" /\ st.fingerprint = NONE
    THEN [st EXCEPT !.fingerprint = IF Len(parts) > 9 THEN At(parts, 9) ELSE NONE]
  ELSE IF At(parts, 0) = "uid" /\ st.uid = NONE
    THEN [st EXCEPT !.uid = IF Len(parts) > 9 THEN At(parts, 9) ELSE NONE]
  ELSE st

RECURSIVE ParseKeyInfoLoop(_, _, _)
ParseKeyInfoLoop(lines, i, st) ==
  IF i > Len(lines) THEN st
  ELSE ParseKeyInfoLoop(lines, i + 1, ParseKeyInfoStep(st, lines[i]))

parse_key_info(gpg_output) ==
  LET st == ParseKeyInfoLoop(gpg_output, 1,
                             [key_id |-> NONE, fingerprint |-> NONE, uid |-> NONE])
  IN  IF Truthy(st.key_id) /\ Truthy(st.fingerprint)
      THEN KeyInfo(st.key_id, st.fingerprint,
                   IF Truthy(st.uid) THEN st.uid ELSE "",
                   st.fingerprint = COURSE_FINGERPRINT)
      ELSE NoKeyInfo

\* CurrentKeyIsStudent without the comparison with the course key id
CurrentKeyIsStudent_AnyPub(cur, parts) ==
  IF At(parts, 0) = "pub" /\ Len(parts) > 4 THEN TRUE ELSE cur

\* the block flag of check_course_signature after a line
CurrentKeyIsStudent(cur, parts) ==
  IF At(parts, 0) = "pub" /\ Len(parts) > 4
  THEN At(parts, 4) # COURSE_LONG_ID
  ELSE cur

\* the sig records check_course_signature looks at
SigExamined(cur, parts) ==
  At(parts, 0) = "sig" /\ cur /\ Len(parts) > 12

\* the signer test of check_course_signature
SignerIsCourse(parts) ==
  At(parts, 12) = COURSE_FINGERPRINT \/ At(parts, 4) = COURSE_LONG_ID

\* SigIsGood that rejects only the "no key" symbol
SigIsGood_NotMissing(parts) == At(parts, 1) # "?"

\* the verdict check_course_signature returns on the sig record it stops at
SigIsGood(parts) == At(parts, 1) = "!"

RECURSIVE CheckCourseSignatureLoop(_, _, _)
CheckCourseSignatureLoop(lines, i, cur) ==
  IF i > Len(lines) THEN FALSE
  ELSE LET parts == lines[i] IN
       IF Len(parts) < 2 THEN CheckCourseSignatureLoop(lines, i + 1, cur)
       ELSE LET now == CurrentKeyIsStudent(cur, parts) IN
            IF SigExamined(now, parts) /\ SignerIsCourse(parts)
            THEN SigIsGood(parts)
            ELSE CheckCourseSignatureLoop(lines, i + 1, now)

check_course_signature(gpg_output) == CheckCourseSignatureLoop(gpg_output, 1, FALSE)

\* CountSignaturesStep without the self-signature test
CountSignaturesStep_CountSelf(st, parts) ==
  IF Len(parts) < 2 THEN st
  ELSE LET cur == IF At(parts, 0) = "pub"
                  THEN (IF Len(parts) > 4 THEN At(parts, 4) ELSE NONE)
                  ELSE st.current_key_id
       IN  IF At(parts, 0) = "sig" /\ Len(parts) > 9 /\ At(parts, 1) = "!"
           THEN [current_key_id |-> cur, signers |-> Append(st.signers, At(parts, 9))]
           ELSE [current_key_id |-> cur, signers |-> st.signers]

\* CountSignaturesStep without the validity test
CountSignaturesStep_AnyValidity(st, parts) ==
  IF Len(parts) < 2 THEN st
  ELSE LET cur == IF At(parts, 0) = "pub"
                  THEN (IF Len(parts) > 4 THEN At(parts, 4) ELSE NONE)
                  ELSE st.current_key_id
       IN  IF At(parts, 0) = "sig" /\ Len(parts) > 9 /\ At(parts, 4) # cur
           THEN [current_key_id |-> cur, signers |-> Append(st.signers, At(parts, 9))]
           ELSE [current_key_id |-> cur, signers |-> st.signers]

\* one iteration of the loop of count_signatures
CountSignaturesStep(st, parts) ==
  IF Len(parts) < 2 THEN st
  ELSE LET cur == IF At(parts, 0) = "pub"
                  THEN (IF Len(parts) > 4 THEN At(parts, 4) ELSE NONE)
                  ELSE st.current_key_id
       IN  IF /\ At(parts, 0) = "sig" /\ Len(parts) > 9
              /\ At(parts, 4) # cur /\ At(parts, 1) = "!"
           THEN [current_key_id |-> cur, signers |-> Append(st.signers, At(parts, 9))]
           ELSE [current_key_id |-> cur, signers |-> st.signers]

\* the indices of parts an iteration of parse_key_info subscripts
ParseKeyInfoSubscripts(st, parts) ==
  IF Len(parts) < 2 THEN {}
  ELSE {0} \cup
       (IF At(parts, 0) = "pub" /\ st.key_id = NONE
          THEN (IF Len(parts) > 4 THEN {4} ELSE {})
        ELSE IF At(parts, 0) = "fpr" /\ st.fingerprint = NONE
          THEN (IF Len(parts) > 9 THEN {9} ELSE {})
        ELSE IF At(parts, 0) = "uid" /\ st.uid = NONE
          THEN (IF Len(parts) > 9 THEN {9} ELSE {})
        ELSE {})

\* the indices of parts an iteration of check_course_signature subscripts
CheckCourseSignatureSubscripts(cur, parts) ==
  IF Len(parts) < 2 THEN {}
  ELSE {0} \cup
       (IF At(parts, 0) = "pub" /\ Len(parts) > 4 THEN {4} ELSE {}) \cup
       (IF At(parts, 0) = "sig" /\ CurrentKeyIsStudent(cur, parts) /\ Len(parts) > 12
        THEN {1, 4, 12} ELSE {})

\* CountSignaturesSubscripts without the length test of the sig branch
CountSignaturesSubscripts_NoLength(parts) ==
  IF Len(parts) < 2 THEN {}
  ELSE {0} \cup
       (IF At(parts, 0) = "pub" /\ Len(parts) > 4 THEN {4} ELSE {}) \cup
       (IF At(parts, 0) = "sig" THEN {1, 4, 9} ELSE {})

\* the indices of parts an iteration of count_signatures subscripts
CountSignaturesSubscripts(parts) ==
  IF Len(parts) < 2 THEN {}
  ELSE {0} \cup
       (IF At(parts, 0) = "pub" /\ Len(parts) > 4 THEN {4} ELSE {}) \cup
       (IF At(parts, 0) = "sig" /\ Len(parts) > 9 THEN {1, 4, 9} ELSE {})

\* parts[k] raises IndexError for one of the indices
IndexError(subscripts, parts) == \E k \in subscripts : k >= Len(parts)

----------------------------------------------------------------------------
(* The gpg process behind run_gpg: what it answers for a key file.          *)
(* A key file is [path, exists, asc, kind].  kind "any" is a key file of    *)
(* which nothing is known: gpg may answer anything within the bounds.  The  *)
(* other kinds are the key files of keys/, for which gpg's answers are      *)
(* fixed by the file.                                                       *)

BatchKinds == {"signed", "unsigned", "course", "own", "corrupt", "garbled"}

KeyIdOf(kf) ==
  CASE kf.kind = "course" -> COURSE_LONG_ID
    [] kf.kind = "own" -> MY_KEY_ID
    [] kf.kind = "any" -> "CANDIDATE"
    [] OTHER -> StudentIds[kf.path]

FprOf(kf) ==
  CASE kf.kind = "course" -> COURSE_FINGERPRINT
    [] kf.kind = "own" -> MY_FINGERPRINT
    [] kf.kind = "any" -> "FPR-CANDIDATE"
    [] OTHER -> StudentFprs[kf.path]

\* lines gpg --list-keys --with-colons may print for the generic key file
ListLines ==
  { PubLine("AAAA"), PubLine("BBBB"), ShortPubLine,
    FprLine("FPR-AAAA"), FprLine(COURSE_FINGERPRINT), UidLine("someone"),
    BlankLine }

\* lines gpg --check-sigs --with-colons may print for the generic key file
CheckLines ==
  { PubLine("AAAA"), PubLine("BBBB"), PubLine(COURSE_LONG_ID), ShortPubLine,
    SigLine("!", COURSE_LONG_ID, "CPSC4130", COURSE_FINGERPRINT),
    SigLine("-", COURSE_LONG_ID, "CPSC4130", COURSE_FINGERPRINT),
    SigLine("!", COURSE_LONG_ID, "CPSC4130", ""),
    SigLineNoFpr("!", COURSE_LONG_ID, "CPSC4130"),
    SigLine("!", "BBBB", "bob", "FPR-BBBB"),
    BlankLine }

\* the block gpg prints for the course key
CourseBlock(withSigs) ==
  <<PubLine(COURSE_LONG_ID), FprLine(COURSE_FINGERPRINT), UidLine("CPSC4130")>>
  \o (IF withSigs
      THEN <<SigLine("!", COURSE_LONG_ID, "CPSC4130", COURSE_FINGERPRINT)>>
      ELSE <<>>)

\* the block gpg prints for the key of a key file of keys/
KeyBlock(kf, withSigs) ==
  IF kf.kind = "course" THEN CourseBlock(withSigs)
  ELSE <<PubLine(KeyIdOf(kf)), FprLine(FprOf(kf)), UidLine("student")>>
       \o (IF withSigs
           THEN <<SigLine("!", KeyIdOf(kf), "student", FprOf(kf))>>
                \o (IF kf.kind \in {"signed", "own"}
                    THEN <<SigLine("!", COURSE_LONG_ID, "CPSC4130", COURSE_FINGERPRINT)>>
                    ELSE <<>>)
           ELSE <<>>)

\* exit status of gpg --import <keyfile>
GpgImportRC(kf) ==
  CASE kf.kind = "any" -> {0, 2}
    [] kf.kind = "corrupt" -> {2}
    [] OTHER -> {0}

\* exit status of gpg --import of COURSE_PUBLIC_KEY
GpgImportCourseRC(kf) == IF kf.kind = "any" THEN {0, 2} ELSE {0}

\* stdout of gpg --list-keys --with-colons after the import of the key file
GpgListKeys(kf) ==
  IF kf.kind = "any" THEN SeqsUpTo(ListLines, MaxLines)
  ELSE {KeyBlock(kf, FALSE) \o <<BlankLine>>}

\* stdout of gpg --check-sigs --with-colons after the import of the course key
GpgCheckSigs(kf) ==
  IF kf.kind = "any" THEN SeqsUpTo(CheckLines, MaxLines)
  ELSE {KeyBlock(kf, TRUE) \o CourseBlock(TRUE) \o <<BlankLine>>}

\* whether subprocess.run can raise at this call (no gpg, undecodable output)
GpgRaises(kf, step) ==
  \/ kf.kind = "any"
  \/ kf.kind = "garbled" /\ step = "list"

\* GpgHome of a run_gpg that drops its homedir argument
GpgHome_Default(homedir) == DEFAULT_HOME

\* the keyring a gpg call works on
GpgHome(homedir) == IF Truthy(homedir) THEN homedir ELSE DEFAULT_HOME

\* the keyrings after gpg --import of the keys into the keyring of homedir
GpgImport(h, homedir, keys) ==
  [h EXCEPT ![GpgHome(homedir)] = @ \cup keys]

\* the name tempfile.mkdtemp returns: one that no directory has
Mkdtemp(h) == CHOOSE d \in TmpNames \ DOMAIN h : TRUE

\* Rmtree that removes nothing
Rmtree_Nothing(h, dir) == h

\* the directories after shutil.rmtree(dir, ignore_errors=True)
Rmtree(h, dir) == [d \in DOMAIN h \ {dir} |-> h[d]]

----------------------------------------------------------------------------
VARIABLES
  \* verify_key_file
  vpc,            \* position in verify_key_file
  keyfile,        \* its argument
  tmpdir,         \* its temporary directory, NONE before mkdtemp
  key_info,       \* its local key_info
  result,         \* the tuple it returns
  exc,            \* an exception is propagating
  checkOut,       \* the stdout of its gpg --check-sigs call
  mkdtemps,       \* the number of directories this call created
  homes,          \* the keyrings: DEFAULT_HOME and the temporary directories
  \* sign_all.main
  pc, dry_run, my_netid, my_key, files, key_files, idx,
  signed_count, skipped_count, outdir, exported, signatures,
  calls,          \* the calls of this run that act on the operator's files
  run,            \* 1: the first run of the script, 2: the second
  decisions,      \* per candidate of this run, the branch the loop took
  prevDecisions,  \* the decisions of the first run
  \* a scanner called on its own
  scanner,        \* "parse_key_info", "check_course_signature" or "count_signatures"
  scan_out,       \* the gpg output it scans
  scan_i,         \* the line its loop is at
  scan_st,        \* its locals
  scan_pc,        \* "loop", "returned" or "raised"
  scan_ret,       \* the value it returned
  scan_taken      \* the lines it returned on or counted

verifyVars == <<vpc, keyfile, tmpdir, key_info, result, exc, checkOut, mkdtemps>>
mainVars == <<pc, dry_run, my_netid, my_key, files, key_files, idx,
              signed_count, skipped_count, outdir, exported, signatures,
              calls, run, decisions, prevDecisions>>
scanVars == <<scanner, scan_out, scan_i, scan_st, scan_pc, scan_ret, scan_taken>>
vars == <<verifyVars, homes, mainVars, scanVars>>

Result(is_valid, message, info) ==
  [is_valid |-> is_valid, message |-> message, key_info |-> info]

NoResult == Result(FALSE, "", NoKeyInfo)

\* checkOut before the gpg --check-sigs call: no gpg output has this line
NoOutput == <<<<NONE>>>>

\* the locals of a call of verify_key_file(kf)
VerifyCall(kf) ==
  /\ vpc' = "enter"
  /\ keyfile' = kf
  /\ tmpdir' = NONE
  /\ key_info' = NoKeyInfo
  /\ result' = NoResult
  /\ exc' = FALSE
  /\ checkOut' = NoOutput
  /\ mkdtemps' = 0

\* verify_key_file, lines 150-156: the two early returns, then mkdtemp
VerifyEnter ==
  /\ vpc = "enter"
  /\ IF ~keyfile.exists
     THEN /\ result' = Result(FALSE, "File not found", NoKeyInfo)
          /\ vpc' = "returned"
          /\ UNCHANGED <<tmpdir, homes, mkdtemps>>
     ELSE IF ~keyfile.asc
     THEN /\ result' = Result(FALSE, "File extension must be .asc", NoKeyInfo)
          /\ vpc' = "returned"
          /\ UNCHANGED <<tmpdir, homes, mkdtemps>>
     ELSE /\ TmpNames \ DOMAIN homes # {}
          /\ tmpdir' = Mkdtemp(homes)
          /\ homes' = (tmpdir' :> {}) @@ homes
          /\ mkdtemps' = mkdtemps + 1
          /\ vpc' = "import"
          /\ UNCHANGED result
  /\ UNCHANGED <<keyfile, key_info, exc, checkOut, mainVars, scanVars>>

\* lines 160-162: import the key file into the temporary keyring
VerifyImport ==
  /\ vpc = "import"
  /\ \E rc \in GpgImportRC(keyfile) :
       IF rc # 0
       THEN /\ result' = Result(FALSE, "Failed to import key", NoKeyInfo)
            /\ vpc' = "finally"
            /\ UNCHANGED homes
       ELSE /\ homes' = GpgImport(homes, tmpdir, {KeyIdOf(keyfile)})
            /\ vpc' = "list"
            /\ UNCHANGED result
  /\ UNCHANGED <<keyfile, tmpdir, key_info, exc, checkOut, mkdtemps, mainVars, scanVars>>

\* lines 165-174: list the keys, parse the key info, return on the course key
VerifyListKeys ==
  /\ vpc = "list"
  /\ GpgHome(tmpdir) \in DOMAIN homes
  /\ \E out \in GpgListKeys(keyfile) :
       LET info == parse_key_info(out) IN
       IF info = NoKeyInfo
       THEN /\ result' = Result(FALSE, "Could not parse key information", NoKeyInfo)
            /\ vpc' = "finally"
            /\ UNCHANGED key_info
       ELSE LET ki == [info EXCEPT !.filepath = keyfile.path] IN
            /\ key_info' = ki
            /\ IF ki.is_course_key
               THEN /\ result' = Result(FALSE, "This is the course key itself", ki)
                    /\ vpc' = "finally"
               ELSE /\ vpc' = "import_course"
                    /\ UNCHANGED result
  /\ UNCHANGED <<keyfile, tmpdir, exc, checkOut, mkdtemps, homes, mainVars, scanVars>>

\* lines 177-179: import the course key into the temporary keyring
VerifyImportCourse ==
  /\ vpc = "import_course"
  /\ \E rc \in GpgImportCourseRC(keyfile) :
       IF rc # 0
       THEN /\ result' = Result(FALSE, "Failed to import course key", NoKeyInfo)
            /\ vpc' = "finally"
            /\ UNCHANGED homes
       ELSE /\ homes' = GpgImport(homes, tmpdir, {COURSE_LONG_ID})
            /\ vpc' = "check_sigs"
            /\ UNCHANGED result
  /\ UNCHANGED <<keyfile, tmpdir, key_info, exc, checkOut, mkdtemps, mainVars, scanVars>>

\* lines 182-189: check the signatures and decide
VerifyCheckSigs ==
  /\ vpc = "check_sigs"
  /\ GpgHome(tmpdir) \in DOMAIN homes
  /\ \E out \in GpgCheckSigs(keyfile) :
       LET ki == [key_info EXCEPT !.has_course_signature = check_course_signature(out)] IN
       /\ checkOut' = out
       /\ key_info' = ki
       /\ result' = IF ki.has_course_signature
                    THEN Result(TRUE, "Key is signed by course key", ki)
                    ELSE Result(FALSE, "Key is NOT signed by course key", ki)
       /\ vpc' = "finally"
  /\ UNCHANGED <<keyfile, tmpdir, exc, mkdtemps, homes, mainVars, scanVars>>

\* a run_gpg call inside the try block raises
VerifyRaise ==
  /\ vpc \in {"import", "list", "import_course", "check_sigs"}
  /\ GpgRaises(keyfile, vpc)
  /\ exc' = TRUE
  /\ vpc' = "finally"
  /\ UNCHANGED <<keyfile, tmpdir, key_info, result, checkOut, mkdtemps, homes, mainVars, scanVars>>

\* lines 191-192: the finally clause, then the return or the propagation
VerifyFinally ==
  /\ vpc = "finally"
  /\ homes' = Rmtree(homes, tmpdir)
  /\ vpc' = IF exc THEN "raised" ELSE "returned"
  /\ UNCHANGED <<keyfile, tmpdir, key_info, result, exc, checkOut, mkdtemps, mainVars, scanVars>>

VerifyStep ==
  \/ VerifyEnter
  \/ VerifyImport
  \/ VerifyListKeys
  \/ VerifyImportCourse
  \/ VerifyCheckSigs
  \/ VerifyRaise
  \/ VerifyFinally

----------------------------------------------------------------------------
(* verify_key_file called on its own, again and again, on any key file *)

AnyKeyFiles == [path : {0}, exists : BOOLEAN, asc : BOOLEAN, kind : {"any"}]

InitKeyrings ==
  { (DEFAULT_HOME :> s) : s \in {{MY_KEY_ID}, {MY_KEY_ID, COURSE_LONG_ID}} }

InitVerifyIdle ==
  /\ vpc = "idle"
  /\ keyfile = [path |-> 0, exists |-> FALSE, asc |-> FALSE, kind |-> "any"]
  /\ tmpdir = NONE
  /\ key_info = NoKeyInfo
  /\ result = NoResult
  /\ exc = FALSE
  /\ checkOut = NoOutput
  /\ mkdtemps = 0

InitMainIdle ==
  /\ pc = "idle"
  /\ dry_run = FALSE
  /\ my_netid = NONE
  /\ my_key = NoKeyInfo
  /\ files = <<>>
  /\ key_files = <<>>
  /\ idx = 0
  /\ signed_count = 0
  /\ skipped_count = 0
  /\ outdir = FALSE
  /\ exported = {}
  /\ signatures = {}
  /\ calls = <<>>
  /\ run = 1
  /\ decisions = <<>>
  /\ prevDecisions = <<>>

InitScanIdle ==
  /\ scanner = "none"
  /\ scan_out = <<>>
  /\ scan_i = 0
  /\ scan_st = NONE
  /\ scan_pc = "idle"
  /\ scan_ret = NONE
  /\ scan_taken = {}

InitVerify ==
  /\ InitVerifyIdle
  /\ InitMainIdle
  /\ InitScanIdle
  /\ homes \in InitKeyrings

\* a caller calls verify_key_file
CallVerify ==
  /\ vpc = "idle"
  /\ \E kf \in AnyKeyFiles : VerifyCall(kf)
  /\ UNCHANGED <<homes, mainVars, scanVars>>

\* the caller has the result, or the exception; the locals are gone
VerifyDone ==
  /\ vpc \in {"returned", "raised"}
  /\ vpc' = "idle"
  /\ keyfile' = [path |-> 0, exists |-> FALSE, asc |-> FALSE, kind |-> "any"]
  /\ tmpdir' = NONE
  /\ key_info' = NoKeyInfo
  /\ result' = NoResult
  /\ exc' = FALSE
  /\ checkOut' = NoOutput
  /\ mkdtemps' = 0
  /\ UNCHANGED <<homes, mainVars, scanVars>>

NextVerify == CallVerify \/ VerifyStep \/ VerifyDone

SpecVerify == InitVerify /\ [][NextVerify]_vars

----------------------------------------------------------------------------
(* The three scanners, each called on its own on any gpg output and run    *)
(* one loop iteration at a time.                                           *)

\* lines of a gpg --list-keys output, with fpr and uid records cut short
ParseLines ==
  ListLines \cup {Line("fpr", "", "", "", "", 5), Line("uid", "u", "", "", "", 3)}

\* lines of a gpg --check-sigs <key> output, with sig records cut short
CountLines ==
  { PubLine("AAAA"), PubLine("BBBB"), ShortPubLine,
    SigLine("!", "AAAA", "alice", "FPR-AAAA"),
    SigLine("!", "BBBB", "bob", "FPR-BBBB"),
    SigLine("-", "BBBB", "bob", "FPR-BBBB"),
    SigLine("!", COURSE_LONG_ID, "CPSC4130", COURSE_FINGERPRINT),
    Line("sig", "!", "BBBB", "", "", 6), <<"sig">>,
    BlankLine }

ScanLines(sc) ==
  CASE sc = "parse_key_info" -> ParseLines
    [] sc = "check_course_signature" -> CheckLines
    [] sc = "count_signatures" -> CountLines

\* the locals of a scanner before its loop
ScanLocals(sc) ==
  CASE sc = "parse_key_info" -> [key_id |-> NONE, fingerprint |-> NONE, uid |-> NONE]
    [] sc = "check_course_signature" -> [current_key_is_student |-> FALSE]
    [] sc = "count_signatures" -> [current_key_id |-> NONE, signers |-> <<>>]

Scanners == {"parse_key_info", "check_course_signature", "count_signatures"}

InitScan ==
  /\ InitVerifyIdle
  /\ InitMainIdle
  /\ homes = (DEFAULT_HOME :> {MY_KEY_ID})
  /\ scanner \in Scanners
  /\ scan_out \in SeqsUpTo(ScanLines(scanner), MaxLines)
  /\ scan_i = 1
  /\ scan_st = ScanLocals(scanner)
  /\ scan_pc = "loop"
  /\ scan_ret = NONE
  /\ scan_taken = {}

ScanAt(sc) ==
  /\ scanner = sc
  /\ scan_pc = "loop"
  /\ scan_i <= Len(scan_out)

\* parse_key_info, lines 86-96: one iteration
ParseKeyInfoIter ==
  /\ ScanAt("parse_key_info")
  /\ LET parts == scan_out[scan_i] IN
     IF IndexError(ParseKeyInfoSubscripts(scan_st, parts), parts)
     THEN scan_pc' = "raised" /\ UNCHANGED <<scan_i, scan_st>>
     ELSE /\ scan_st' = ParseKeyInfoStep(scan_st, parts)
          /\ scan_i' = scan_i + 1
          /\ UNCHANGED scan_pc
  /\ UNCHANGED <<scanner, scan_out, scan_ret, scan_taken, verifyVars, homes, mainVars>>

\* check_course_signature, lines 117-136: one iteration
CheckCourseSignatureIter ==
  /\ ScanAt("check_course_signature")
  /\ LET parts == scan_out[scan_i]
         cur == scan_st.current_key_is_student IN
     IF IndexError(CheckCourseSignatureSubscripts(cur, parts), parts)
     THEN scan_pc' = "raised" /\ UNCHANGED <<scan_i, scan_st, scan_ret, scan_taken>>
     ELSE IF Len(parts) < 2
     THEN scan_i' = scan_i + 1 /\ UNCHANGED <<scan_st, scan_pc, scan_ret, scan_taken>>
     ELSE LET now == CurrentKeyIsStudent(cur, parts) IN
          /\ scan_st' = [current_key_is_student |-> now]
          /\ IF SigExamined(now, parts) /\ SignerIsCourse(parts)
             THEN /\ scan_ret' = SigIsGood(parts)
                  /\ scan_taken' = {scan_i}
                  /\ scan_pc' = "returned"
                  /\ UNCHANGED scan_i
             ELSE /\ scan_i' = scan_i + 1
                  /\ UNCHANGED <<scan_pc, scan_ret, scan_taken>>
  /\ UNCHANGED <<scanner, scan_out, verifyVars, homes, mainVars>>

\* count_signatures, lines 286-301: one iteration
CountSignaturesIter ==
  /\ ScanAt("count_signatures")
  /\ LET parts == scan_out[scan_i] IN
     IF IndexError(CountSignaturesSubscripts(parts), parts)
     THEN scan_pc' = "raised" /\ UNCHANGED <<scan_i, scan_st, scan_taken>>
     ELSE /\ scan_st' = CountSignaturesStep(scan_st, parts)
          /\ scan_taken' = IF Len(scan_st'.signers) > Len(scan_st.signers)
                           THEN scan_taken \cup {scan_i} ELSE scan_taken
          /\ scan_i' = scan_i + 1
          /\ UNCHANGED scan_pc
  /\ UNCHANGED <<scanner, scan_out, scan_ret, verifyVars, homes, mainVars>>

\* the value a scanner returns after its loop (lines 98-105, 138, 303)
ScanResult(sc, st) ==
  CASE sc = "parse_key_info" ->
         IF Truthy(st.key_id) /\ Truthy(st.fingerprint)
         THEN KeyInfo(st.key_id, st.fingerprint,
                      IF Truthy(st.uid) THEN st.uid ELSE "",
                      st.fingerprint = COURSE_FINGERPRINT)
         ELSE NoKeyInfo
    [] sc = "check_course_signature" -> FALSE
    [] sc = "count_signatures" -> <<Len(st.signers), st.signers>>

\* the loop is over: the return statement
ScanReturn ==
  /\ scan_pc = "loop"
  /\ scan_i > Len(scan_out)
  /\ scan_ret' = ScanResult(scanner, scan_st)
  /\ scan_pc' = "returned"
  /\ UNCHANGED <<scanner, scan_out, scan_i, scan_st, scan_taken, verifyVars, homes, mainVars>>

NextScan ==
  \/ ParseKeyInfoIter
  \/ CheckCourseSignatureIter
  \/ CountSignaturesIter
  \/ ScanReturn

SpecScan == InitScan /\ [][NextScan]_vars

\* gpg_utils.count_signatures on the stdout of its gpg --check-sigs call
RECURSIVE CountSignaturesLoop(_, _, _)
CountSignaturesLoop(lines, i, st) ==
  IF i > Len(lines) THEN st
  ELSE CountSignaturesLoop(lines, i + 1, CountSignaturesStep(st, lines[i]))

count_signatures(gpg_output) ==
  LET st == CountSignaturesLoop(gpg_output, 1, ScanLocals("count_signatures"))
  IN  <<Len(st.signers), st.signers>>

\* the stepwise scanners agree with the scanners as functions
ScanAgrees ==
  scan_pc = "returned" =>
    scan_ret = CASE scanner = "parse_key_info" -> parse_key_info(scan_out)
                 [] scanner = "check_course_signature" -> check_course_signature(scan_out)
                 [] scanner = "count_signatures" -> count_signatures(scan_out)

----------------------------------------------------------------------------
(* sign_all.py: main.  Paths of keys/ are numbered in lexicographic order, *)
(* so sorted() is the ascending order of the numbers.                      *)

\* gpg_utils.get_my_key_info: the operator's secret key, if there is one
get_my_key_info(h) ==
  IF MY_KEY_ID \in h[DEFAULT_HOME]
  THEN KeyInfo(MY_KEY_ID, MY_FINGERPRINT, "operator", FALSE)
  ELSE NoKeyInfo

\* the key file at a path of keys/: glob yields existing *.asc files only
KeyFileAt(p) == [path |-> p, exists |-> TRUE, asc |-> TRUE, kind |-> files[p]]

\* all orders in which glob.glob can list the paths of S
Orders(S) ==
  {sq \in [1..Cardinality(S) -> S] : \A i, j \in DOMAIN sq : i # j => sq[i] # sq[j]}

\* sorted(key_files)
RECURSIVE Sorted(_)
Sorted(sq) ==
  IF Len(sq) = 0 THEN <<>>
  ELSE LET m == CHOOSE i \in DOMAIN sq : \A j \in DOMAIN sq : sq[i] <= sq[j]
       IN  <<sq[m]>> \o Sorted([k \in 1..(Len(sq) - 1) |-> IF k < m THEN sq[k] ELSE sq[k + 1]])

\* Branch without the test of is_valid
Branch_NoValidCheck(res, mykey, dry) ==
  IF res.key_info = NoKeyInfo THEN "unparsed"
  ELSE IF res.key_info.is_course_key THEN "course"
  ELSE IF res.key_info.key_id = mykey.key_id THEN "own"
  ELSE IF dry THEN "would_sign"
  ELSE "import"

\* Branch with the dry-run test ahead of the own-key test
Branch_DryRunFirst(res, mykey, dry) ==
  IF res.key_info = NoKeyInfo THEN "unparsed"
  ELSE IF res.key_info.is_course_key THEN "course"
  ELSE IF dry /\ res.is_valid THEN "would_sign"
  ELSE IF res.key_info.key_id = mykey.key_id THEN "own"
  ELSE IF ~res.is_valid THEN "not_valid"
  ELSE "import"

\* the branch the loop body takes on the result of verify_key_file
Branch(res, mykey, dry) ==
  IF res.key_info = NoKeyInfo THEN "unparsed"
  ELSE IF res.key_info.is_course_key THEN "course"
  ELSE IF res.key_info.key_id = mykey.key_id THEN "own"
  ELSE IF ~res.is_valid THEN "not_valid"
  ELSE IF dry THEN "would_sign"
  ELSE "import"

Call(op, p) == [op |-> op, path |-> p]

\* the record of the branch taken for the current candidate
Decision(branch, dskipped) ==
  [path |-> keyfile.path, branch |-> branch, skipped |-> dskipped]

\* the loop goes on to the next key file
NextCandidate ==
  /\ idx' = idx + 1
  /\ pc' = "loop"

\* lines 19-44: the NetID and the secret key, or exit(1)
MainStart ==
  /\ pc = "start"
  /\ IF my_netid = NONE
     THEN pc' = "exit1" /\ UNCHANGED my_key
     ELSE /\ my_key' = get_my_key_info(homes)
          /\ pc' = IF my_key' = NoKeyInfo THEN "exit1" ELSE "ensure"
  /\ UNCHANGED <<scanVars, verifyVars, homes, dry_run, my_netid, files, key_files, idx,
                 signed_count, skipped_count, outdir, exported, signatures,
                 calls, run, decisions, prevDecisions>>

\* line 47 and gpg_utils.ensure_course_key_imported
EnsureCourseKeyImported ==
  /\ pc = "ensure"
  /\ IF COURSE_LONG_ID \notin homes[GpgHome(NONE)]
     THEN /\ calls' = Append(calls, Call("import_course", 0))
          /\ \E rc \in {0, 2} :
               homes' = IF rc = 0 THEN GpgImport(homes, NONE, {COURSE_LONG_ID})
                        ELSE homes
     ELSE UNCHANGED <<calls, homes>>
  /\ pc' = "makedirs"
  /\ UNCHANGED <<scanVars, verifyVars, dry_run, my_netid, my_key, files, key_files, idx,
                 signed_count, skipped_count, outdir, exported, signatures,
                 run, decisions, prevDecisions>>

\* lines 50-52: the output directory
MakeOutputDir ==
  /\ pc = "makedirs"
  /\ IF ~dry_run
     THEN outdir' = TRUE /\ calls' = Append(calls, Call("makedirs", 0))
     ELSE UNCHANGED <<outdir, calls>>
  /\ pc' = "glob"
  /\ UNCHANGED <<scanVars, verifyVars, homes, dry_run, my_netid, my_key, files, key_files,
                 idx, signed_count, skipped_count, exported, signatures,
                 run, decisions, prevDecisions>>

\* lines 55-63: the key files, sorted, or exit(0); the counters
FindKeyFiles ==
  /\ pc = "glob"
  /\ \E listed \in Orders(DOMAIN files) :
       IF Len(listed) = 0
       THEN /\ pc' = "exit0"
            /\ UNCHANGED <<key_files, idx, signed_count, skipped_count>>
       ELSE /\ key_files' = Sorted(listed)
            /\ idx' = 1
            /\ signed_count' = 0
            /\ skipped_count' = 0
            /\ pc' = "loop"
  /\ UNCHANGED <<scanVars, verifyVars, homes, dry_run, my_netid, my_key, files, outdir,
                 exported, signatures, calls, run, decisions, prevDecisions>>

\* lines 63-69: the next key file, and the call of verify_key_file
LoopCall ==
  /\ pc = "loop"
  /\ idx <= Len(key_files)
  /\ VerifyCall(KeyFileAt(key_files[idx]))
  /\ pc' = "verify"
  /\ UNCHANGED <<scanVars, homes, dry_run, my_netid, my_key, files, key_files, idx,
                 signed_count, skipped_count, outdir, exported, signatures,
                 calls, run, decisions, prevDecisions>>

\* verify_key_file raised: main has no handler
VerifyRaised ==
  /\ pc = "verify"
  /\ vpc = "raised"
  /\ pc' = "crashed"
  /\ UNCHANGED <<scanVars, verifyVars, homes, dry_run, my_netid, my_key, files, key_files,
                 idx, signed_count, skipped_count, outdir, exported, signatures,
                 calls, run, decisions, prevDecisions>>

Returned(branch) ==
  /\ pc = "verify"
  /\ vpc = "returned"
  /\ Branch(result, my_key, dry_run) = branch

\* lines 71-74
SkipUnparsed ==
  /\ Returned("unparsed")
  /\ skipped_count' = skipped_count + 1
  /\ decisions' = Append(decisions, Decision("unparsed", 1))
  /\ NextCandidate
  /\ UNCHANGED <<scanVars, verifyVars, homes, dry_run, my_netid, my_key, files, key_files,
                 signed_count, outdir, exported, signatures, calls, run,
                 prevDecisions>>

\* SkipCourseKey that counts the course key as skipped
SkipCourseKey_Counted ==
  /\ pc = "verify"
  /\ vpc = "returned"
  /\ result.key_info # NoKeyInfo
  /\ result.key_info.is_course_key
  /\ skipped_count' = skipped_count + 1
  /\ decisions' = Append(decisions, [path |-> keyfile.path, branch |-> "course", skipped |-> 1])
  /\ idx' = idx + 1
  /\ pc' = "loop"
  /\ UNCHANGED <<scanVars, verifyVars, homes, dry_run, my_netid, my_key, files, key_files,
                 signed_count, outdir, exported, signatures, calls, run,
                 prevDecisions>>

\* lines 77-79
SkipCourseKey ==
  /\ Returned("course")
  /\ decisions' = Append(decisions, Decision("course", 0))
  /\ NextCandidate
  /\ UNCHANGED <<scanVars, verifyVars, homes, dry_run, my_netid, my_key, files, key_files,
                 signed_count, skipped_count, outdir, exported, signatures,
                 calls, run, prevDecisions>>

\* SkipOwnKey that counts the operator's own key as skipped
SkipOwnKey_Counted ==
  /\ pc = "verify"
  /\ vpc = "returned"
  /\ Branch(result, my_key, dry_run) = "own"
  /\ skipped_count' = skipped_count + 1
  /\ decisions' = Append(decisions, [path |-> keyfile.path, branch |-> "own", skipped |-> 1])
  /\ idx' = idx + 1
  /\ pc' = "loop"
  /\ UNCHANGED <<scanVars, verifyVars, homes, dry_run, my_netid, my_key, files, key_files,
                 signed_count, outdir, exported, signatures, calls, run,
                 prevDecisions>>

\* lines 82-84
SkipOwnKey ==
  /\ Returned("own")
  /\ decisions' = Append(decisions, Decision("own", 0))
  /\ NextCandidate
  /\ UNCHANGED <<scanVars, verifyVars, homes, dry_run, my_netid, my_key, files, key_files,
                 signed_count, skipped_count, outdir, exported, signatures,
                 calls, run, prevDecisions>>

\* lines 87-90
SkipNotValid ==
  /\ Returned("not_valid")
  /\ skipped_count' = skipped_count + 1
  /\ decisions' = Append(decisions, Decision("not_valid", 1))
  /\ NextCandidate
  /\ UNCHANGED <<scanVars, verifyVars, homes, dry_run, my_netid, my_key, files, key_files,
                 signed_count, outdir, exported, signatures, calls, run,
                 prevDecisions>>

\* lines 94-97
WouldSign ==
  /\ Returned("would_sign")
  /\ signed_count' = signed_count + 1
  /\ decisions' = Append(decisions, Decision("sign", 0))
  /\ NextCandidate
  /\ UNCHANGED <<scanVars, verifyVars, homes, dry_run, my_netid, my_key, files, key_files,
                 skipped_count, outdir, exported, signatures, calls, run,
                 prevDecisions>>

\* lines 99-100 and gpg_utils.import_key: the result of the import is dropped
ImportKey ==
  /\ Returned("import")
  /\ decisions' = Append(decisions, Decision("sign", 0))
  /\ calls' = Append(calls, Call("import", keyfile.path))
  /\ \E rc \in {0, 2} :
       homes' = IF rc = 0 THEN GpgImport(homes, NONE, {KeyIdOf(keyfile)})
                ELSE homes
  /\ pc' = "sign"
  /\ UNCHANGED <<scanVars, verifyVars, dry_run, my_netid, my_key, files, key_files, idx,
                 signed_count, skipped_count, outdir, exported, signatures,
                 run, prevDecisions>>

\* lines 103-104, 113-115 and gpg_utils.sign_key
SignKey ==
  /\ pc = "sign"
  /\ calls' = Append(calls, Call("sign", keyfile.path))
  /\ \E ok \in {TRUE, FALSE} :
       /\ ok => key_info.key_id \in homes[GpgHome(NONE)]
       /\ IF ok
          THEN /\ signatures' = signatures \cup {key_info.key_id}
               /\ pc' = "export"
               /\ UNCHANGED <<idx, skipped_count>>
          ELSE /\ skipped_count' = skipped_count + 1
               /\ NextCandidate
               /\ UNCHANGED signatures
  /\ UNCHANGED <<scanVars, verifyVars, homes, dry_run, my_netid, my_key, files, key_files,
                 signed_count, outdir, exported, run, decisions, prevDecisions>>

\* lines 106-112 and gpg_utils.export_key
ExportKey ==
  /\ pc = "export"
  /\ calls' = Append(calls, Call("export", keyfile.path))
  /\ \E ok \in {TRUE, FALSE} :
       IF ok
       THEN /\ exported' = exported \cup {keyfile.path}
            /\ signed_count' = signed_count + 1
            /\ UNCHANGED skipped_count
       ELSE /\ skipped_count' = skipped_count + 1
            /\ UNCHANGED <<exported, signed_count>>
  /\ NextCandidate
  /\ UNCHANGED <<scanVars, verifyVars, homes, dry_run, my_netid, my_key, files, key_files,
                 outdir, signatures, run, decisions, prevDecisions>>

\* lines 117-127: the summary
Summary ==
  /\ pc = "loop"
  /\ idx > Len(key_files)
  /\ pc' = "done"
  /\ UNCHANGED <<scanVars, verifyVars, homes, dry_run, my_netid, my_key, files, key_files,
                 idx, signed_count, skipped_count, outdir, exported, signatures,
                 calls, run, decisions, prevDecisions>>

\* the operator runs the script again on the same keys/, in the other mode
RunAgain ==
  /\ pc = "done"
  /\ run = 1
  /\ run' = 2
  /\ dry_run' = ~dry_run
  /\ prevDecisions' = decisions
  /\ decisions' = <<>>
  /\ calls' = <<>>
  /\ my_key' = NoKeyInfo
  /\ key_files' = <<>>
  /\ idx' = 0
  /\ signed_count' = 0
  /\ skipped_count' = 0
  /\ pc' = "start"
  /\ vpc' = "idle"
  /\ keyfile' = [path |-> 0, exists |-> FALSE, asc |-> FALSE, kind |-> "any"]
  /\ tmpdir' = NONE
  /\ key_info' = NoKeyInfo
  /\ result' = NoResult
  /\ exc' = FALSE
  /\ checkOut' = NoOutput
  /\ mkdtemps' = 0
  /\ UNCHANGED <<scanVars, homes, my_netid, files, outdir, exported, signatures>>

Batches == UNION {[1..n -> BatchKinds] : n \in 0..MaxFiles}

Init ==
  /\ InitVerifyIdle
  /\ InitScanIdle
  /\ homes \in {(DEFAULT_HOME :> s) : s \in {{}, {MY_KEY_ID}, {MY_KEY_ID, COURSE_LONG_ID}}}
  /\ pc = "start"
  /\ dry_run \in BOOLEAN
  /\ my_netid \in {NONE, "abc123"}
  /\ my_key = NoKeyInfo
  /\ files \in Batches
  /\ key_files = <<>>
  /\ idx = 0
  /\ signed_count = 0
  /\ skipped_count = 0
  /\ outdir = FALSE
  /\ exported = {}
  /\ signatures = {}
  /\ calls = <<>>
  /\ run = 1
  /\ decisions = <<>>
  /\ prevDecisions = <<>>

MainStep ==
  \/ MainStart
  \/ EnsureCourseKeyImported
  \/ MakeOutputDir
  \/ FindKeyFiles
  \/ LoopCall
  \/ VerifyRaised
  \/ SkipUnparsed
  \/ SkipCourseKey
  \/ SkipOwnKey
  \/ SkipNotValid
  \/ WouldSign
  \/ ImportKey
  \/ SignKey
  \/ ExportKey
  \/ Summary
  \/ RunAgain

Next == MainStep \/ VerifyStep

Spec == Init /\ [][Next]_vars

----------------------------------------------------------------------------
(* Vocabulary of the properties: records and key blocks of a gpg output,   *)
(* read off the output itself.                                             *)

IsRecord(l, kind) == Len(l) >= 2 /\ l[1] = kind

\* the pub record that opens the block line i lies in, 0 when there is none
BlockStart(lines, i) ==
  LET pubs == {j \in 1..(i - 1) : IsRecord(lines[j], "pub")}
  IN  IF pubs = {} THEN 0 ELSE CHOOSE j \in pubs : \A k \in pubs : k <= j

\* the key id of the block line i lies in, NONE when it has none
BlockKey(lines, i) ==
  LET j == BlockStart(lines, i)
  IN  IF j = 0 \/ Len(lines[j]) < 5 THEN NONE ELSE lines[j][5]

HasFingerprint(l, fpr) == Len(l) >= 13 /\ l[13] = fpr
HasKeyId(l, id) == Len(l) >= 5 /\ l[5] = id

\* a sig record whose signer is the course key, by fingerprint or by key id
RootSignerSig(l) ==
  /\ IsRecord(l, "sig")
  /\ HasFingerprint(l, COURSE_FINGERPRINT) \/ HasKeyId(l, COURSE_LONG_ID)

\* verify_key_file has run gpg --check-sigs and decided
Checked == vpc \in {"finally", "returned"} /\ checkOut # NoOutput

SignedMessage == "Key is signed by course key"
NotSignedMessage == "Key is NOT signed by course key"

\* C1 (as claimed): whenever the block of the candidate holds a sig record
\* with validity "!" and the course fingerprint as signer fingerprint, the
\* verification is valid, whatever other sig records the block holds.
C1_GoodRootSigInBlockIsValid ==
  (/\ Checked
   /\ \E i \in 1..Len(checkOut) :
        /\ BlockKey(checkOut, i) = key_info.key_id
        /\ IsRecord(checkOut[i], "sig")
        /\ checkOut[i][2] = "!"
        /\ HasFingerprint(checkOut[i], COURSE_FINGERPRINT))
  => result.is_valid

\* C2: a verification is valid only if the gpg --check-sigs output holds a sig
\* record with validity "!" whose signer is the course key; when the output
\* holds no such record, the result is not valid and carries the message
\* "Key is NOT signed by course key".
C2_ValidOnlyWithGoodRootSig ==
  LET good == \E i \in 1..Len(checkOut) :
                RootSignerSig(checkOut[i]) /\ checkOut[i][2] = "!"
  IN  /\ result.is_valid => Checked /\ good
      /\ Checked /\ ~good =>
           ~result.is_valid /\ result.message = NotSignedMessage

\* C2 witness: a root-signer sig record with another validity symbol in a
\* student block, and the verification returned not valid.
C2_Witness ==
  /\ vpc = "returned"
  /\ checkOut # NoOutput
  /\ \E i \in 1..Len(checkOut) :
       /\ RootSignerSig(checkOut[i])
       /\ checkOut[i][2] = "-"
       /\ BlockKey(checkOut, i) = key_info.key_id
  /\ ~result.is_valid
  /\ result.message = NotSignedMessage

\* C4: when every root-signer sig record of the output lies in the block of
\* the course key itself, the verification is not valid, wherever that block
\* stands in the output.
C4_RootBlockNeverMatches ==
  (/\ Checked
   /\ \A i \in 1..Len(checkOut) :
        RootSignerSig(checkOut[i]) => BlockKey(checkOut, i) = COURSE_LONG_ID)
  => ~result.is_valid

\* C4 witness: the block of the course key, with a good self-signature, comes
\* before a student block, and the verification returned not valid.
C4_Witness ==
  /\ vpc = "returned"
  /\ checkOut # NoOutput
  /\ \E i, j \in 1..Len(checkOut) :
       /\ i < j
       /\ RootSignerSig(checkOut[i]) /\ checkOut[i][2] = "!"
       /\ BlockKey(checkOut, i) = COURSE_LONG_ID
       /\ IsRecord(checkOut[j], "pub") /\ HasKeyId(checkOut[j], key_info.key_id)
  /\ \A i \in 1..Len(checkOut) :
       RootSignerSig(checkOut[i]) => BlockKey(checkOut, i) = COURSE_LONG_ID
  /\ ~result.is_valid

\* C5 (as claimed): when the output holds the block of the candidate (the key
\* parse_key_info returned) and no root-signer sig record lies in that block,
\* the verification is not valid, whatever the blocks of other keys hold.
C5_OnlyCandidateBlockCounts ==
  (/\ Checked
   /\ \E j \in 1..Len(checkOut) :
        IsRecord(checkOut[j], "pub") /\ HasKeyId(checkOut[j], key_info.key_id)
   /\ \A i \in 1..Len(checkOut) :
        RootSignerSig(checkOut[i]) => BlockKey(checkOut, i) # key_info.key_id)
  => ~result.is_valid

\* C9: the temporary directory of a call is gone when the call returns or
\* raises, a call creates at most one, and none exists when a call starts.
C9_ContextDestroyed ==
  /\ vpc \in {"returned", "raised"} => DOMAIN homes = {DEFAULT_HOME}
  /\ vpc \in {"idle", "enter"} => DOMAIN homes = {DEFAULT_HOME}
  /\ mkdtemps <= 1
  /\ Cardinality(DOMAIN homes) <= 2

\* C9 witness: a call that created its directory left by an exception, and
\* the directory is gone.
C9_Witness ==
  /\ vpc = "raised"
  /\ mkdtemps = 1
  /\ tmpdir \in TmpNames
  /\ tmpdir \notin DOMAIN homes

\* C10: no step of verify_key_file changes the operator's keyring.
C10_KeyringUnchanged ==
  [][(vpc \in {"enter", "import", "list", "import_course", "check_sigs", "finally"})
       => (homes'[DEFAULT_HOME] = homes[DEFAULT_HOME])]_vars

\* C10 witness: a call that imported the key file and the course key has
\* returned valid.
C10_Witness ==
  /\ vpc = "returned"
  /\ result.is_valid
  /\ mkdtemps = 1

----------------------------------------------------------------------------
(* Properties of sign_all.main *)

\* the key of keys/<p> carries a good signature of the course key
RootSigned(p) ==
  LET block == KeyBlock(KeyFileAt(p), TRUE)
  IN  \E i \in 1..Len(block) : RootSignerSig(block[i]) /\ block[i][2] = "!"

\* C3: main is at the import, sign or export of a candidate only when
\* verify_key_file returned valid for that candidate in this iteration and
\* the candidate is neither the course key nor the operator's key; every
\* import, sign and export of a run is of a key file whose key is a
\* root-signed key of somebody else.
C3_SignOnlyVerified ==
  /\ pc \in {"sign", "export"} =>
       /\ vpc = "returned"
       /\ keyfile.path = key_files[idx]
       /\ result.is_valid
       /\ result.key_info.filepath = keyfile.path
       /\ ~result.key_info.is_course_key
       /\ result.key_info.key_id # my_key.key_id
  /\ \A i \in DOMAIN calls :
       calls[i].op \in {"import", "sign", "export"} =>
         /\ RootSigned(calls[i].path)
         /\ KeyIdOf(KeyFileAt(calls[i].path)) \notin {COURSE_LONG_ID, MY_KEY_ID}

\* C3 witness: sign_key succeeded on a candidate, main is at its export.
C3_Witness ==
  /\ pc = "export"
  /\ key_info.key_id \in signatures

\* C6 (as claimed): no step of a dry run changes the operator's keyring, the
\* signatures, the exported files or the output directory.
C6_DryRunChangesNothing ==
  [][dry_run => /\ homes'[DEFAULT_HOME] = homes[DEFAULT_HOME]
                /\ signatures' = signatures
                /\ exported' = exported
                /\ outdir' = outdir]_vars

\* C7: the second run of the script, in the other mode, takes for every
\* candidate the branch the first run took (skipped unparsed, course key, own
\* key, not valid, or on to signing) with the same change of skipped_count.
C7_SameDecisions ==
  run = 2 =>
    /\ Len(decisions) <= Len(prevDecisions)
    /\ \A i \in DOMAIN decisions : decisions[i] = prevDecisions[i]
    /\ pc = "done" => decisions = prevDecisions

\* C7 witness: both runs are complete, one candidate went on to signing and
\* one was skipped with a count.
C7_Witness ==
  /\ run = 2
  /\ pc = "done"
  /\ \E i, j \in DOMAIN decisions :
       /\ decisions[i].branch = "sign"
       /\ decisions[j].skipped = 1

\* the batch of end-to-end scenario 3
Scenario3 == <<"signed", "course", "unsigned">>

\* C8 (as claimed): on scenario 3 the summary reports 1 signed and 2 skipped.
C8_ScenarioCountsAsClaimed ==
  (pc = "done" /\ files = Scenario3) =>
     signed_count = 1 /\ skipped_count = 2

\* C8 (amended): on scenario 3 the course key is counted in neither counter:
\* the counters sum to 2; in a dry run, and in a live run whose sign and
\* export of candidate 1 succeed, they are 1 signed and 1 skipped, and
\* otherwise 0 signed and 2 skipped.
C8_ScenarioCounts ==
  (pc = "done" /\ files = Scenario3) =>
     /\ signed_count + skipped_count = 2
     /\ IF dry_run \/ 1 \in exported
        THEN signed_count = 1 /\ skipped_count = 1
        ELSE signed_count = 0 /\ skipped_count = 2

\* C8 witness: a live run of scenario 3 is complete, candidate 1 exported.
C8_Witness ==
  /\ pc = "done"
  /\ files = Scenario3
  /\ ~dry_run
  /\ signed_count = 1
  /\ exported = {1}

----------------------------------------------------------------------------
(* count_signatures and the scanners on their own.                         *)

\* count_signatures has returned
Counted == scanner = "count_signatures" /\ scan_pc = "returned"

\* the signer identities (field 9) of the lines S of a stream, in stream order
SignerUids(lines, S) ==
  LET at == SelectSeq([i \in 1..Len(lines) |-> i], LAMBDA i : i \in S)
  IN  [k \in 1..Len(at) |-> lines[at[k]][10]]

\* the sig records with validity "!" whose signer id is not the block's key id
GoodForeignSigs(lines) ==
  {i \in 1..Len(lines) : /\ IsRecord(lines[i], "sig")
                         /\ lines[i][2] = "!"
                         /\ ~HasKeyId(lines[i], BlockKey(lines, i))}

SelfSignedOnly(lines) ==
  /\ Len(lines) >= 1
  /\ IsRecord(lines[1], "pub") /\ Len(lines[1]) >= 5
  /\ \A i \in 2..Len(lines) :
       IsRecord(lines[i], "sig") /\ HasKeyId(lines[i], lines[1][5])

\* C12: on a stream that is the subject's pub record followed only by sig
\* records whose signer id is the subject's id, whatever their validity,
\* count_signatures returns count 0 and an empty signer list.
C12_SelfSignaturesNotCounted ==
  (Counted /\ SelfSignedOnly(scan_out)) => scan_ret = <<0, <<>>>>

\* such a scan over a stream with a good and a bad self-signature
C12_Witness ==
  /\ Counted
  /\ SelfSignedOnly(scan_out)
  /\ \E i, j \in 2..Len(scan_out) :
       /\ Len(scan_out[i]) > 9 /\ scan_out[i][2] = "!"
       /\ Len(scan_out[j]) > 9 /\ scan_out[j][2] # "!"


\* C13: no scanner raises: every loop iteration of parse_key_info,
\* check_course_signature and count_signatures either moves to the next line
\* or returns, on empty lines, single-field lines and records cut short alike,
\* and an iteration on a line with fewer than 2 fields changes no local of
\* the scanner.
C13_ScannersNeverRaise ==
  [][(scan_pc = "loop") =>
       /\ scan_pc' \in {"loop", "returned"}
       /\ (scan_pc' = "loop") => (scan_i' = scan_i + 1)
       /\ (scan_i <= Len(scan_out) /\ Len(scan_out[scan_i]) < 2) =>
            (scan_st' = scan_st /\ scan_taken' = scan_taken /\ scan_pc' = "loop")]_vars

\* count_signatures returned from a stream of an empty line, a single-field
\* line, a pub record and a sig record cut short
C13_Witness ==
  /\ Counted
  /\ \E i, j, k, l \in 1..Len(scan_out) :
       /\ scan_out[i] = BlankLine
       /\ scan_out[j] = <<"sig">>
       /\ IsRecord(scan_out[k], "pub") /\ Len(scan_out[k]) < 5
       /\ IsRecord(scan_out[l], "sig") /\ Len(scan_out[l]) < 10


----------------------------------------------------------------------------
(* The course key as a candidate, and the live calls for one candidate.    *)

\* verify_key_file parsed a key whose fingerprint is the course fingerprint
CourseCandidate ==
  key_info # NoKeyInfo /\ key_info.fingerprint = COURSE_FINGERPRINT

\* C14: a candidate whose parsed fingerprint is the course fingerprint is
\* never valid: verify_key_file answers is_valid false with the message
\* "This is the course key itself" and a key_info marked is_course_key, it
\* neither imports the course key nor runs gpg --check-sigs, and main calls
\* no import, sign or export for it.
C14_CourseKeyNeverValid ==
  CourseCandidate =>
    /\ key_info.is_course_key
    /\ vpc \in {"finally", "returned"}
    /\ checkOut = NoOutput
    /\ result = Result(FALSE, "This is the course key itself", key_info)
    /\ pc \notin {"sign", "export"}
    /\ \A i \in DOMAIN calls :
         calls[i].path = keyfile.path => calls[i].op \notin {"import", "sign", "export"}
    /\ key_info.key_id \notin signatures

\* verify_key_file returned on the course key in a live run of main
C14_Witness ==
  /\ CourseCandidate
  /\ vpc = "returned"
  /\ pc = "verify"
  /\ ~dry_run


\* C15 (as claimed): in a live run a candidate whose import into the
\* operator's keyring failed is not signed or exported: sign_key is called
\* only for a key the import put into the operator's keyring.
C15_NoSignAfterFailedImport ==
  \A i \in DOMAIN calls :
    calls[i].op = "sign" =>
      KeyIdOf(KeyFileAt(calls[i].path)) \in homes[GpgHome(NONE)]


\* check_course_signature has returned
CheckReturned == scanner = "check_course_signature" /\ scan_pc = "returned"

\* C16 (as claimed): when the first root-signer sig record of the stream has
\* validity "!", carries the course key id as signer id but ends before the
\* signer fingerprint field, and lies in the block of a key other than the
\* course key, check_course_signature returns true.
C16_KeyIdAloneQualifies ==
  (/\ CheckReturned
   /\ \E i \in 1..Len(scan_out) :
        /\ IsRecord(scan_out[i], "sig")
        /\ scan_out[i][2] = "!"
        /\ HasKeyId(scan_out[i], COURSE_LONG_ID)
        /\ Len(scan_out[i]) < 13
        /\ BlockKey(scan_out, i) \notin {NONE, COURSE_LONG_ID}
        /\ \A j \in 1..(i - 1) : ~RootSignerSig(scan_out[j]))
  => scan_ret = TRUE


\* count_signatures counts only sig records that have a preceding pub record
C17_CountNeedsPub ==
  Counted => \A i \in scan_taken : BlockStart(scan_out, i) # 0

\* check_course_signature returns true only on a sig record whose nearest
\* preceding pub record exists and carries a key id other than the course's
C17_CheckUsesNearestPub ==
  (CheckReturned /\ scan_ret = TRUE) =>
    \A i \in scan_taken : BlockKey(scan_out, i) \notin {NONE, COURSE_LONG_ID}

\* C17 (as claimed): both scans attribute a sig record to the nearest
\* preceding pub record only: neither takes a sig record that has no
\* preceding pub record, and after any pub record, one too short to carry a
\* key id included, no sig record is attributed to the earlier block.
C17_SigsBelongToNearestPub == C17_CountNeedsPub /\ C17_CheckUsesNearestPub


\* this step makes the call op for the current candidate
Calls(op) == calls' = Append(calls, Call(op, keyfile.path))

\* the last call made before this step
LastCall == IF calls = <<>> THEN Call("none", 0) ELSE calls[Len(calls)]

\* the order of the live calls for one candidate, each after the success of
\* the one before, but for the import ahead of the sign
LiveCallsOrdered ==
  /\ Calls("import") => pc = "verify" /\ vpc = "returned" /\ result.is_valid
  /\ Calls("sign") => LastCall = Call("import", keyfile.path)
  /\ Calls("export") =>
       LastCall = Call("sign", keyfile.path) /\ key_info.key_id \in signatures
  /\ (~dry_run /\ signed_count' > signed_count) =>
       Calls("export") /\ keyfile.path \in exported' /\ signed_count' = signed_count + 1
  /\ (pc = "sign" /\ pc' # "export") =>
       skipped_count' = skipped_count + 1 /\ idx' = idx + 1 /\ pc' = "loop"
  /\ (pc = "export" /\ signed_count' = signed_count) =>
       skipped_count' = skipped_count + 1 /\ idx' = idx + 1 /\ pc' = "loop"
  /\ \A i, j \in DOMAIN calls' : calls'[i] = calls'[j] => i = j

\* sign_key is called only when the import put the key into the keyring
SignAfterImportSucceeded ==
  Calls("sign") => key_info.key_id \in homes[GpgHome(NONE)]

\* the claim of C18 without the success of the import
C18_OrderedButImport == [][LiveCallsOrdered]_vars

\* C18 (as claimed): in a live run the calls for one candidate come in the
\* order verify, import, sign, export, each only after the one before
\* succeeded: sign only after a successful import, export only after a
\* successful sign of the same key, signed_count incremented only after a
\* successful export, and a failed sign or export increments skipped_count
\* once and moves on to the next candidate.
C18_EachCallAfterSuccess ==
  [][LiveCallsOrdered /\ SignAfterImportSucceeded]_vars


----------------------------------------------------------------------------
(* The batch loop as a whole.                                              *)

\* main with the scheduling of a sequential program: it goes on while it can
FairSpec == Spec /\ WF_vars(Next)

\* the paths main has decided on so far in this run, in the order decided
Processed == [i \in DOMAIN decisions |-> decisions[i].path]

\* main is in the loop over the key files, or past it
InBatch == pc \in {"loop", "verify", "sign", "export", "done", "crashed"}

\* every candidate is processed once, in ascending order of path
ProcessedInOrder ==
  InBatch =>
    /\ \A i, j \in DOMAIN key_files : i < j => key_files[i] < key_files[j]
    /\ {key_files[i] : i \in DOMAIN key_files} = DOMAIN files
    /\ Len(decisions) \in {idx - 1, idx}
    /\ Len(decisions) <= Len(key_files)
    /\ Processed = SubSeq(key_files, 1, Len(decisions))
    /\ pc = "done" => Len(decisions) = Len(key_files)

\* no run_gpg call raises on a key file of the batch
NoGpgRaises == \A p \in DOMAIN files : files[p] # "garbled"

\* when no run_gpg call raises, the loop reaches the summary
LoopEndsUnlessRaise == (pc = "loop" /\ NoGpgRaises) ~> (pc = "done")

\* C19 (as claimed): the batch always runs to completion: every candidate is
\* processed exactly once in ascending order of path, and whatever happens to
\* a candidate the loop is not abandoned before the summary.
C19_BatchRunsToCompletion == ProcessedInOrder /\ pc # "crashed"


\* the key of the key file at p parses and is the course key or the
\* operator's own key
IdentitySkip(p) ==
  LET kf == KeyFileAt(p)
  IN  /\ kf.kind \notin {"corrupt", "garbled"}
      /\ FprOf(kf) = COURSE_FINGERPRINT \/ KeyIdOf(kf) = MY_KEY_ID

\* signed_count + skipped_count is the number of candidates done so far that
\* are neither the course key nor the operator's own key
CountersAccount ==
  InBatch =>
    signed_count + skipped_count =
      Cardinality({i \in 1..(idx - 1) : ~IdentitySkip(key_files[i])})

\* a step of one run: no counter decreases, and the counters change only when
\* a candidate is done, by one in all if it is no identity skip, else not
CountersStep ==
  (run' = run) =>
    /\ signed_count' >= signed_count
    /\ skipped_count' >= skipped_count
    /\ (signed_count' + skipped_count') - (signed_count + skipped_count) =
         IF pc # "glob" /\ idx' = idx + 1 /\ ~IdentitySkip(key_files[idx])
         THEN 1 ELSE 0

\* C20: every candidate increments exactly one of signed_count and
\* skipped_count by one, or neither, and neither exactly when its key parsed
\* and is the course key or the operator's own key; so signed_count +
\* skipped_count is always the number of candidates processed so far less the
\* course-key and own-key candidates among them, and no counter decreases.
C20_CounterAccounting == [][CountersStep /\ CountersAccount']_vars

\* a live run ended on a batch of the course key, the operator's own key and
\* a key that was signed and exported: 1 signed, 0 skipped
C20_Witness ==
  /\ pc = "done"
  /\ ~dry_run
  /\ Len(key_files) = 3
  /\ \E p, q \in DOMAIN files : files[p] = "course" /\ files[q] = "own"
  /\ signed_count = 1
  /\ skipped_count = 0

====
